---- MODULE Spec2Model ----
(***************************************************************************)
(* Job lifecycle of the OCR micro-service: the receiver (src/receiver.py)  *)
(* admits jobs onto a Redis list, sender workers (src/sender.py) pop them, *)
(* process them, store the result under an expiring key, post a callback   *)
(* and requeue failed attempts (src/queue_manager.py).                     *)
(*                                                                         *)
(* Python dicts are TLA+ records; None is the string "None"; instants are  *)
(* seconds on one wall clock (now).  A Redis command is one atomic step.   *)
(*                                                                         *)
(* One iteration of SenderWorker.run is three steps, cut at its Redis      *)
(* commands: the pop (run_dequeue), process_job with the SETEX of its      *)
(* result (run_process), the callback POST with the retry check and its    *)
(* RPUSH (run_callback).  In Spec and FairSpec the Queue Store answers     *)
(* every command and no worker process dies; in FaultSpec a Redis command  *)
(* may raise and a worker process may be killed.                           *)
(*                                                                         *)
(* PollSpec is the service under any configured poll interval.             *)
(* extract_contract_number (src/phone_extractor.py) works on characters;   *)
(* ExtractSpec calls it once on a list of OCR fragments.                   *)
(* DebugSpec puts the debug server (debug/server.py) in front of the        *)
(* receiver: submit_job, webhook and get_result over its results_store.    *)
(***************************************************************************)
EXTENDS Integers, Sequences, FiniteSets, Bags, TLC

\* ------------------------------------------------------------------ bounds

\* POST /process requests handled in one behaviour
MaxJobs == 2
\* sender worker processes
NumWorkers == 2
\* clock advances in one behaviour
MaxTicks == 1
\* POST /process requests handled in one behaviour of the fair specifications
MaxFairJobs == 1
\* exceptions one worker loop catches in one behaviour
MaxFaults == 1
\* worker processes killed in one behaviour
MaxCrashes == 1

\* ------------------------------------------------------- program constants

\* APISettings.max_retries
max_retries == 3
\* RedisSettings.result_ttl (seconds)
result_ttl == 3600
\* APISettings.sender_poll_interval (seconds; 1.0 in the source)
sender_poll_interval == 1

None == "None"

Workers == 1..NumWorkers
\* task ids uuid4 can hand out in a behaviour of MaxJobs admissions
TaskIds == 1..MaxJobs
\* a task id no admission ever returns
UnknownTaskId == MaxJobs + 1
\* one clock advance, in seconds
TickSeconds == result_ttl

VARIABLES
    queue,      \* Redis list settings.redis.input_queue: JSON texts, head first
    store,      \* Redis keys output_prefix:<task_id>: task_id -> [value, expire_at],
                \* defined on the keys written so far
    now,        \* wall clock, seconds
    uuid_count, \* number of uuid4() values drawn so far
    pc,         \* pc[w]: the line of SenderWorker.run worker w is at
    job_data,   \* job_data[w]: run()'s local job_data, empty outside an iteration
    result,     \* result[w]: run()'s local result, empty outside an iteration
    pending,    \* history: <<task_id, retry_count>> of the pushes not yet popped,
                \* oldest push first
    popped,     \* history: the bag of <<task_id, retry_count>> popped so far
    posts,      \* history: the bag of callback POSTs attempted, each
                \* [url, task_id, retry_count, status]
    requests,   \* history: number of POST /process requests handled so far
    sent,       \* history: what the send_callback call made last returned, as
                \* <<True>> or <<False>>; empty before the first call
    raised,     \* history: raised[w] counts the exceptions the loop of worker w
                \* has caught in its `except Exception` branch
    response,   \* history: the request POST /process handled last and the HTTP
                \* status it was answered with, with the task_id of a 202
    poll_interval, \* SenderWorker.poll_interval, in milliseconds
    results_store, \* the debug server's results_store: task_id -> the dict
                \* saved for it last
    posted,     \* history: whether the JSON body of the callback POST made last
                \* was the text the result key of its task held then, as
                \* <<TRUE>> or <<FALSE>>; empty before the first POST
    pop,        \* history: the pop command dequeue_job sent last, as
                \* [command, timeout, reply]; empty before the first
    ocr_input,  \* the OCR fragments handed to extract_contract_number
    extracted   \* what extract_contract_number returned for them, as <<value>>;
                \* empty before the call

vars == <<queue, store, now, uuid_count, pc, job_data, result,
          pending, popped, posts, requests, response, sent, raised,
          posted,
                   results_store, poll_interval, pop, ocr_input, extracted>>

\* ------------------------------------------------------------------- JSON

\* insertion order of the keys of a job dict (enqueue_job)
JobKeys == <<"task_id", "image_url", "user_id", "timestamp", "callback_url",
             "enqueued_at", "retry_count">>
\* insertion order of the keys of a result dict (process_job, then store_result)
ResultKeys == <<"task_id", "status", "user_id", "timestamp", "image_url",
                "phone_number", "confidence", "ocr_text", "error",
                "processing_time", "processed_at", "completed_at">>

\* the keys of `keys` that dict d has, in order
RECURSIVE KeysOf(_, _)
KeysOf(d, keys) ==
    IF keys = <<>> THEN <<>>
    ELSE IF Head(keys) \in DOMAIN d
         THEN <<Head(keys)>> \o KeysOf(d, Tail(keys))
         ELSE KeysOf(d, Tail(keys))

\* json.dumps of a dict: its members as <<key, value>> pairs, in key order
json_dumps(d, keys) ==
    LET ks == KeysOf(d, keys) IN [i \in 1..Len(ks) |-> <<ks[i], d[ks[i]]>>]

\* json.loads of an object: the dict of its members (a later member wins)
json_loads(text) ==
    [k \in {text[i][1] : i \in 1..Len(text)} |->
        LET last == CHOOSE i \in 1..Len(text) :
                        /\ text[i][1] = k
                        /\ \A j \in (i+1)..Len(text) : text[j][1] # k
        IN text[last][2]]

\* dict.get(key, default)
Get(d, key, default) == IF key \in DOMAIN d THEN d[key] ELSE default

\* d[key] = value on a dict
SetItem(d, key, value) ==
    [k \in DOMAIN d \cup {key} |-> IF k = key THEN value ELSE d[k]]

EmptyDict == <<>>

\* sequence s without its first occurrence of x
RECURSIVE Remove(_, _)
Remove(s, x) ==
    IF s = <<>> THEN <<>>
    ELSE IF Head(s) = x THEN Tail(s)
    ELSE <<Head(s)>> \o Remove(Tail(s), x)

\* ------------------------------------------------------------------ Redis

\* mutant: LPUSH, the value goes to the head of the list
lpush(list, value) == <<value>> \o list

\* RPUSH key value
rpush(list, value) == Append(list, value)

\* mutant: the ttl is taken in the wrong unit, the key outlives it
setex_wrong_unit(keys, key, seconds, value) ==
    [k \in DOMAIN keys \cup {key} |->
        IF k = key THEN [value |-> value, expire_at |-> now + seconds * 1000]
        ELSE keys[k]]

\* SETEX key seconds value: the key expires `seconds` after the write
setex(keys, key, seconds, value) ==
    [k \in DOMAIN keys \cup {key} |->
        IF k = key THEN [value |-> value, expire_at |-> now + seconds]
        ELSE keys[k]]

\* whether a key is still there (an expired key reads as absent)
redis_exists(keys, key) == key \in DOMAIN keys /\ now < keys[key].expire_at

\* the nil reply of Redis, which Python sees as None: here the empty text
Nil == <<>>

\* GET key: the value, or nil for a missing or expired key
redis_get(keys, key) == IF redis_exists(keys, key) THEN keys[key].value ELSE Nil

\* ------------------------------------------------- the recognition pipeline

\* A str is the sequence of its characters, each a one-character string; a
\* character outside ASCII is written as its code point.
o_diaeresis == "U+00F6"
s_cedilla == "U+015F"
arabic_indic_three == "U+0663"

\* [0-9]
AsciiDigits == {"0", "1", "2", "3", "4", "5", "6", "7", "8", "9"}
\* \d of a str pattern: every Unicode decimal digit
DecimalDigits == AsciiDigits \cup {arabic_indic_three}
\* \s of a str pattern
Whitespace == {" ", "\t"}
\* [-‐–—]: hyphen-minus, hyphen, en dash, em dash
Hyphens == {"-", "U+2010", "U+2013", "U+2014"}

\* None where a str is expected: no str the extractor returns is empty
NoNumber == <<>>

\* PhoneSettings.min_confidence, in percent (0.3 in the source)
min_confidence == 30
\* the score of a marker match no fragment accounts for, in percent (0.99)
default_score == 99

\* " ".join(texts)
RECURSIVE join(_)
join(texts) ==
    IF texts = <<>> THEN <<>>
    ELSE IF Len(texts) = 1 THEN texts[1]
    ELSE texts[1] \o <<" ">> \o join(Tail(texts))

\* sub in text
Contains(text, sub) ==
    \E i \in 1..(Len(text) - Len(sub) + 1) :
        SubSeq(text, i, i + Len(sub) - 1) = sub

\* the first index from k on whose character is not whitespace (\s*, greedy)
RECURSIVE skip_whitespace(_, _)
skip_whitespace(t, k) ==
    IF k <= Len(t) /\ t[k] \in Whitespace THEN skip_whitespace(t, k + 1) ELSE k

\* where the match of [Ss]özle[sş]me[-‐–—]?\s*(\d{10}) that begins at index i of
\* t puts its group 1; 0 when no match begins there
contract_group_at(t, i) ==
    IF i + 7 > Len(t) THEN 0
    ELSE IF ~ /\ t[i] \in {"S", "s"}
              /\ SubSeq(t, i + 1, i + 4) = <<o_diaeresis, "z", "l", "e">>
              /\ t[i + 5] \in {"s", s_cedilla}
              /\ SubSeq(t, i + 6, i + 7) = <<"m", "e">>
         THEN 0
    ELSE LET j == i + 8
             k == IF j <= Len(t) /\ t[j] \in Hyphens THEN j + 1 ELSE j
             d == skip_whitespace(t, k)
         IN  IF d + 9 <= Len(t) /\ \A n \in d..(d + 9) : t[n] \in DecimalDigits
             THEN d ELSE 0

\* re.search(pattern, full_text).group(1): group 1 of the leftmost match, the
\* empty sequence when there is no match
re_search_contract(t) ==
    LET starts == {i \in 1..Len(t) : contract_group_at(t, i) > 0}
    IN  IF starts = {} THEN <<>>
        ELSE LET i == CHOOSE m \in starts : \A n \in starts : m <= n
                 d == contract_group_at(t, i)
             IN  SubSeq(t, d, d + 9)

\* re.sub(r'[^0-9]', '', text)
re_sub_non_digits(t) == SelectSeq(t, LAMBDA c : c \in AsciiDigits)

\* re.findall(r'5\d{9}', clean_text)[0] on a text of ASCII digits; the empty
\* sequence when findall returns no match
re_findall_phone_first(clean) ==
    LET starts == {i \in 1..(Len(clean) - 9) : clean[i] = "5"}
    IN  IF starts = {} THEN <<>>
        ELSE LET i == CHOOSE m \in starts : \A n \in starts : m <= n
             IN  SubSeq(clean, i, i + 9)

\* max(score for _, score in texts_with_scores)
max_score(ocr_results) ==
    CHOOSE s \in {ocr_results[i].confidence : i \in DOMAIN ocr_results} :
        \A i \in DOMAIN ocr_results : ocr_results[i].confidence <= s

\* mutant: the number after the marker is returned whatever its first digit
extract_contract_number_any_prefix(ocr_results) ==
    LET texts == [i \in DOMAIN ocr_results |-> ocr_results[i].text]
        full_text == join(texts)
        number == re_search_contract(full_text)
        owners == {i \in DOMAIN texts :
                      \/ Contains(texts[i], number)
                      \/ Contains(texts[i], <<"S", o_diaeresis, "z", "l", "e">>)}
        clean_text == re_sub_non_digits(full_text)
        first == re_findall_phone_first(clean_text)
    IN  IF number # <<>>
        THEN IF owners = {} THEN <<number, default_score>>
             ELSE <<number,
                    ocr_results[CHOOSE m \in owners :
                                    \A n \in owners : m <= n].confidence>>
        ELSE IF first # <<>> THEN <<first, max_score(ocr_results)>>
        ELSE <<NoNumber, 0>>

\* extract_contract_number: <<number, confidence>> found in the OCR fragments
\* [text, confidence], <<NoNumber, 0>> for (None, 0.0)
extract_contract_number(ocr_results) ==
    LET texts == [i \in DOMAIN ocr_results |-> ocr_results[i].text]
        full_text == join(texts)
        number == re_search_contract(full_text)
        owners == {i \in DOMAIN texts :
                      \/ Contains(texts[i], number)
                      \/ Contains(texts[i], <<"S", o_diaeresis, "z", "l", "e">>)}
        clean_text == re_sub_non_digits(full_text)
        first == re_findall_phone_first(clean_text)
    IN  IF number # <<>> /\ number[1] = "5"
        THEN IF owners = {} THEN <<number, default_score>>
             ELSE <<number,
                    ocr_results[CHOOSE m \in owners :
                                    \A n \in owners : m <= n].confidence>>
        ELSE IF first # <<>> THEN <<first, max_score(ocr_results)>>
        ELSE <<NoNumber, 0>>

\* mutant: a run that raises nothing succeeds, whatever it read
OCRService_process_image_empty_succeeds(raises, rec) ==
    IF raises # None
    THEN [success |-> FALSE, text |-> <<>>, results |-> <<>>, error |-> raises]
    ELSE LET ocr_results ==
                 SelectSeq(rec, LAMBDA r : r.text # <<>> /\ r.confidence >= min_confidence)
         IN  [success |-> TRUE,
              text |-> join([i \in DOMAIN ocr_results |-> ocr_results[i].text]),
              results |-> ocr_results, error |-> None]

\* OCRService.process_image: the fragments PaddleOCR reads (rec) that have a text
\* and a score of at least min_confidence, joined into text; a raise inside is
\* caught and kept in error
OCRService_process_image(raises, rec) ==
    IF raises # None
    THEN [success |-> FALSE, text |-> <<>>, results |-> <<>>, error |-> raises]
    ELSE LET ocr_results ==
                 SelectSeq(rec, LAMBDA r : r.text # <<>> /\ r.confidence >= min_confidence)
         IN  [success |-> ocr_results # <<>>,
              text |-> join([i \in DOMAIN ocr_results |-> ocr_results[i].text]),
              results |-> ocr_results, error |-> None]

\* SenderWorker.download_image: whether an image comes back; the reason of a
\* failure is logged and None is returned
download_image(raises) == raises = None

\* text[:n]
Slice(text, n) == SubSeq(text, 1, IF Len(text) < n THEN Len(text) ELSE n)

\* What the outside world answers to one attempt: the exception the download
\* raises (None: an image), the exception PaddleOCR raises (None: it returns), the
\* fragments it reads; with them what download_image, OCRService.process_image
\* and extract_contract_number return in that world (confidence in percent).
World(download_raises, ocr_raises, rec) ==
    LET ocr_result == OCRService_process_image(ocr_raises, rec) IN
    [download_raises |-> download_raises, ocr_raises |-> ocr_raises,
     image |-> download_image(download_raises), ocr_result |-> ocr_result,
     extracted |-> extract_contract_number(ocr_result.results)]

Worlds == <<
    World("404 Client Error: Not Found for url", None, <<>>),
    World(None, "Predictor run failed", <<>>),
    World(None, None, <<[text |-> <<"5", "3", "5">>, confidence |-> 20]>>),
    World(None, None,
          <<[text |-> <<"S", o_diaeresis, "z", "l", "e", s_cedilla, "m", "e", "-",
                        "5", "3", "5", "6", "3", "1", "4", "8", "4", "8">>,
             confidence |-> 95]>>),
    World(None, None, <<[text |-> <<"h", "e", "l", "l", "o">>, confidence |-> 80]>>) >>

\* mutant: a text in which no number is found fails the attempt
process_job_nothing_found_fails(job, world) ==
    LET error(reason) ==
            [task_id |-> job.task_id, status |-> "error", user_id |-> job.user_id,
             timestamp |-> job.timestamp, image_url |-> job.image_url,
             error |-> reason, processing_time |-> 0, processed_at |-> now]
    IN  IF ~world.image THEN error("Failed to download image")
        ELSE IF ~world.ocr_result.success THEN error("OCR processing failed")
        ELSE IF world.extracted[1] = NoNumber THEN error("No number found")
        ELSE [task_id |-> job.task_id, status |-> "completed",
              user_id |-> job.user_id, timestamp |-> job.timestamp,
              image_url |-> job.image_url, phone_number |-> world.extracted[1],
              confidence |-> world.extracted[2],
              ocr_text |-> Slice(world.ocr_result.text, 500),
              processing_time |-> 0, processed_at |-> now]

\* SenderWorker.process_job: the result dict of one attempt
process_job(job, world) ==
    LET error(reason) ==
            [task_id |-> job.task_id, status |-> "error", user_id |-> job.user_id,
             timestamp |-> job.timestamp, image_url |-> job.image_url,
             error |-> reason, processing_time |-> 0, processed_at |-> now]
    IN  IF ~world.image THEN error("Failed to download image")
        ELSE IF ~world.ocr_result.success THEN error("OCR processing failed")
        ELSE [task_id |-> job.task_id, status |-> "completed",
              user_id |-> job.user_id, timestamp |-> job.timestamp,
              image_url |-> job.image_url, phone_number |-> world.extracted[1],
              confidence |-> world.extracted[2],
              ocr_text |-> Slice(world.ocr_result.text, 500),
              processing_time |-> 0, processed_at |-> now]

\* -------------------------------------------------------------- QueueManager

\* mutant: the RPUSH is repeated, as after a timeout that is retried
enqueue_job_pushes_twice(image_url, user_id, timestamp, callback_url) ==
    LET task_id == uuid_count + 1
        job == [task_id |-> task_id, image_url |-> image_url, user_id |-> user_id,
                timestamp |-> timestamp, callback_url |-> callback_url,
                enqueued_at |-> now, retry_count |-> 0]
    IN  /\ uuid_count' = task_id
        /\ queue' = rpush(rpush(queue, json_dumps(job, JobKeys)),
                          json_dumps(job, JobKeys))
        /\ pending' = Append(Append(pending, <<task_id, 0>>), <<task_id, 0>>)

\* QueueManager.enqueue_job: a fresh uuid4 task id, retry_count 0, RPUSH
enqueue_job(image_url, user_id, timestamp, callback_url) ==
    LET task_id == uuid_count + 1
        job == [task_id |-> task_id, image_url |-> image_url, user_id |-> user_id,
                timestamp |-> timestamp, callback_url |-> callback_url,
                enqueued_at |-> now, retry_count |-> 0]
    IN  /\ uuid_count' = task_id
        /\ queue' = rpush(queue, json_dumps(job, JobKeys))
        /\ pending' = Append(pending, <<task_id, 0>>)

\* the pop command dequeue_job sends for a timeout, with the reply it got:
\* `if timeout == 0` LPOP, which does not block, else BLPOP with that timeout
pop_command(timeout, reply) ==
    [command |-> IF timeout = 0 THEN "LPOP" ELSE "BLPOP", timeout |-> timeout,
     reply |-> reply]

\* mutant: the head is read and decoded but left in the list (LINDEX for LPOP)
dequeue_job_peek(w, timeout) ==
    /\ queue # <<>>
    /\ queue' = queue
    /\ job_data' = [job_data EXCEPT ![w] = json_loads(Head(queue))]
    /\ popped' = popped (+) SetToBag({<<json_loads(Head(queue)).task_id,
                                        json_loads(Head(queue)).retry_count>>})
    /\ pending' = pending
    /\ pop' = pop_command(timeout, "value")

\* QueueManager.dequeue_job, a job found: LPOP (timeout 0) or BLPOP take the head
\* of the list in one Redis command, and the text is decoded
dequeue_job(w, timeout) ==
    /\ queue # <<>>
    /\ queue' = Tail(queue)
    /\ job_data' = [job_data EXCEPT ![w] = json_loads(Head(queue))]
    /\ LET id == <<json_loads(Head(queue)).task_id,
                   json_loads(Head(queue)).retry_count>>
       IN  /\ popped' = popped (+) SetToBag({id})
           /\ pending' = Remove(pending, id)
    /\ pop' = pop_command(timeout, "value")

\* QueueManager.dequeue_job, the list empty: the pop replies nil (BLPOP once its
\* timeout has passed) and None is returned
dequeue_job_none(w, timeout) ==
    /\ queue = <<>>
    /\ pop' = pop_command(timeout, "nil")
    /\ UNCHANGED <<queue, job_data, popped, pending>>

\* mutant: completed_at is set on the dict but nothing is written
store_result_not_written(w, task_id, result_data) ==
    LET data == SetItem(result_data, "completed_at", now) IN
    /\ result' = [result EXCEPT ![w] = data]
    /\ store' = store

\* mutant: only a completed result is written
store_result_completed_only(w, task_id, result_data) ==
    LET data == SetItem(result_data, "completed_at", now) IN
    /\ result' = [result EXCEPT ![w] = data]
    /\ store' = IF data.status = "completed"
                THEN setex(store, task_id, result_ttl, json_dumps(data, ResultKeys))
                ELSE store

\* mutant: completed_at is set on a copy, the caller's dict stays without it
store_result_on_copy(w, task_id, result_data) ==
    LET data == SetItem(result_data, "completed_at", now) IN
    /\ result' = [result EXCEPT ![w] = result_data]
    /\ store' = setex(store, task_id, result_ttl, json_dumps(data, ResultKeys))

\* mutant: a key that is there is left as it is (SET with NX)
store_result_keeps_first(w, task_id, result_data) ==
    LET data == SetItem(result_data, "completed_at", now) IN
    /\ result' = [result EXCEPT ![w] = data]
    /\ store' = IF redis_exists(store, task_id) THEN store
                ELSE setex(store, task_id, result_ttl,
                           json_dumps(data, ResultKeys))

\* QueueManager.store_result: completed_at is set on the caller's dict, which is
\* then written with SETEX under the result ttl
store_result(w, task_id, result_data) ==
    LET data == SetItem(result_data, "completed_at", now) IN
    /\ result' = [result EXCEPT ![w] = data]
    /\ store' = setex(store, task_id, result_ttl, json_dumps(data, ResultKeys))

\* QueueManager.get_result: the decoded value of the key, or None
get_result(task_id) ==
    LET text == redis_get(store, task_id) IN
    IF text # Nil THEN json_loads(text) ELSE EmptyDict

\* mutant: the record is pushed twice
requeue_job_twice(w, job) ==
    LET again == SetItem(job, "retry_count", Get(job, "retry_count", 0) + 1) IN
    /\ queue' = rpush(rpush(queue, json_dumps(again, JobKeys)),
                      json_dumps(again, JobKeys))
    /\ pending' = Append(Append(pending, <<again.task_id, again.retry_count>>),
                         <<again.task_id, again.retry_count>>)

\* mutant: the record is pushed back with its retry_count as it was
requeue_job_same_count(w, job) ==
    /\ queue' = rpush(queue, json_dumps(job, JobKeys))
    /\ pending' = Append(pending, <<job.task_id, job.retry_count>>)

\* mutant: the record goes back to the head of the list (LPUSH)
requeue_job_at_head(w, job) ==
    LET again == SetItem(job, "retry_count", Get(job, "retry_count", 0) + 1) IN
    /\ queue' = <<json_dumps(again, JobKeys)>> \o queue
    /\ pending' = Append(pending, <<again.task_id, again.retry_count>>)

\* mutant: retry_count is raised by two
requeue_job_plus_two(w, job) ==
    LET again == SetItem(job, "retry_count", Get(job, "retry_count", 0) + 2) IN
    /\ queue' = rpush(queue, json_dumps(again, JobKeys))
    /\ pending' = Append(pending, <<again.task_id, again.retry_count>>)

\* mutant: the record goes back without its callback_url
requeue_job_drops_callback(w, job) ==
    LET again == SetItem(SetItem(job, "retry_count", Get(job, "retry_count", 0) + 1),
                         "callback_url", None) IN
    /\ queue' = rpush(queue, json_dumps(again, JobKeys))
    /\ pending' = Append(pending, <<again.task_id, again.retry_count>>)

\* QueueManager.requeue_job: retry_count + 1 on the caller's dict, RPUSH
requeue_job(w, job) ==
    LET again == SetItem(job, "retry_count", Get(job, "retry_count", 0) + 1) IN
    /\ queue' = rpush(queue, json_dumps(again, JobKeys))
    /\ pending' = Append(pending, <<again.task_id, again.retry_count>>)

\* QueueManager.get_queue_size: LLEN
get_queue_size == Len(queue)

\* QueueManager.health_check: True when PING is answered, False when it raises
health_check(ping) == ping

\* ------------------------------------------------------------------ receiver

HttpImageUrl == <<"h", "t", "t", "p", ":", "/", "/", "x">>
FtpImageUrl == <<"f", "t", "p", ":", "/", "/", "b">>
ImageUrls == {HttpImageUrl, FtpImageUrl}
Timestamps == {"2026-02-14T12:00:00", "yesterday"}
\* the timestamps datetime.fromisoformat accepts, among Timestamps
IsoTimestamps == {"2026-02-14T12:00:00"}
CallbackUrls == {None, "http://cb"}
UserIds == {"u1"}

\* str.startswith(prefix)
startswith(v, prefix) ==
    Len(v) >= Len(prefix) /\ SubSeq(v, 1, Len(prefix)) = prefix

\* mutant: any URL with a scheme passes
validate_image_url_any_scheme(v) ==
    \E i \in 1..Len(v) : SubSeq(v, i, i + 2) = <<":", "/", "/">>

\* ProcessRequest.validate_image_url
validate_image_url(v) ==
    \/ startswith(v, <<"h", "t", "t", "p", ":", "/", "/">>)
    \/ startswith(v, <<"h", "t", "t", "p", "s", ":", "/", "/">>)

\* ProcessRequest.validate_timestamp
validate_timestamp(v) == v \in IsoTimestamps

\* the status codes of POST /process
HTTP_202_ACCEPTED == 202
HTTP_422_UNPROCESSABLE_ENTITY == 422
HTTP_500_INTERNAL_SERVER_ERROR == 500
HTTP_503_SERVICE_UNAVAILABLE == 503

\* what is kept of a request and its answer: the two validated fields, the
\* status code, the task_id of the body (none: empty) and what health_check
\* returned to the handler (empty for a request that is not valid: the handler
\* is not called)
Answer(image_url, timestamp, status_code) ==
    [image_url |-> image_url, timestamp |-> timestamp,
     status_code |-> status_code, task_id |-> <<>>,
     health_check |-> IF status_code = HTTP_422_UNPROCESSABLE_ENTITY
                      THEN <<>> ELSE <<health_check(TRUE)>>]

\* process_image(): an exception raised inside its try block, an HTTPException
\* too, is caught by `except Exception` and answered 500
except_Exception(status_code) == HTTP_500_INTERNAL_SERVER_ERROR

\* POST /process with the Queue Store answering: a request that does not pass the
\* validators of ProcessRequest is answered 422 before the handler runs; one that
\* does passes the health check and is enqueued, the answer is 202 with the
\* task_id.  At most max_jobs requests.
process_image(max_jobs) ==
    /\ requests < max_jobs
    /\ requests' = requests + 1
    /\ \E image_url \in ImageUrls, user_id \in UserIds, timestamp \in Timestamps,
          callback_url \in CallbackUrls :
           IF validate_image_url(image_url) /\ validate_timestamp(timestamp)
           THEN /\ health_check(TRUE)
                /\ enqueue_job(image_url, user_id, timestamp, callback_url)
                /\ response' = [Answer(image_url, timestamp, HTTP_202_ACCEPTED)
                                   EXCEPT !.task_id = <<uuid_count'>>]
           ELSE /\ response' = Answer(image_url, timestamp,
                                      HTTP_422_UNPROCESSABLE_ENTITY)
                /\ UNCHANGED <<queue, uuid_count, pending>>
    /\ UNCHANGED <<store, now, pc, job_data, result, popped, posts, sent, posted,
                   results_store, raised,
                   poll_interval, pop, ocr_input, extracted>>

\* POST /process while the Queue Store does not answer PING: health_check returns
\* False, the handler raises HTTPException(503) inside its try block and
\* enqueue_job is not reached
process_image_unhealthy(max_jobs) ==
    /\ requests < max_jobs
    /\ requests' = requests + 1
    /\ \E image_url \in ImageUrls, timestamp \in Timestamps :
           /\ validate_image_url(image_url) /\ validate_timestamp(timestamp)
           /\ ~health_check(FALSE)
           /\ response' = [Answer(image_url, timestamp,
                                  except_Exception(HTTP_503_SERVICE_UNAVAILABLE))
                              EXCEPT !.health_check = <<health_check(FALSE)>>]
    /\ UNCHANGED <<queue, store, now, uuid_count, pc, job_data, result, pending,
                   popped, posts, sent, posted,
                   results_store, raised,
                   poll_interval, pop, ocr_input, extracted>>

\* POST /process when the Queue Store is lost after the RPUSH of enqueue_job:
\* get_queue_size (LLEN) raises, the handler's `except Exception` answers 500 and
\* no task_id goes back to the caller
process_image_llen_raises(max_jobs) ==
    /\ requests < max_jobs
    /\ requests' = requests + 1
    /\ \E image_url \in ImageUrls, user_id \in UserIds, timestamp \in Timestamps,
          callback_url \in CallbackUrls :
           /\ validate_image_url(image_url) /\ validate_timestamp(timestamp)
           /\ health_check(TRUE)
           /\ enqueue_job(image_url, user_id, timestamp, callback_url)
           /\ response' = Answer(image_url, timestamp,
                                 except_Exception(HTTP_500_INTERNAL_SERVER_ERROR))
    /\ UNCHANGED <<store, now, pc, job_data, result, popped, posts, sent, posted,
                   results_store,
                   raised, poll_interval, pop, ocr_input, extracted>>

\* mutant: a miss is answered not_found, the status the docstring also lists
receiver_get_result_not_found(task_id) ==
    LET res == get_result(task_id) IN
    IF res # EmptyDict
    THEN [task_id |-> task_id,
          status |-> Get(res, "status", "completed"),
          result |-> IF Get(res, "status", None) # "error" THEN res ELSE EmptyDict,
          error |-> IF Get(res, "status", None) = "error"
                    THEN Get(res, "error", None) ELSE None]
    ELSE [task_id |-> task_id, status |-> "not_found",
          result |-> EmptyDict, error |-> None]

\* mutant: the stored dict is returned as result whatever its status
receiver_get_result_always_payload(task_id) ==
    LET res == get_result(task_id) IN
    IF res # EmptyDict
    THEN [task_id |-> task_id,
          status |-> Get(res, "status", "completed"),
          result |-> res,
          error |-> IF Get(res, "status", None) = "error"
                    THEN Get(res, "error", None) ELSE None]
    ELSE [task_id |-> task_id, status |-> "processing",
          result |-> EmptyDict, error |-> None]

\* GET /result/{task_id}: the ResultResponse
receiver_get_result(task_id) ==
    LET res == get_result(task_id) IN
    IF res # EmptyDict
    THEN [task_id |-> task_id,
          status |-> Get(res, "status", "completed"),
          result |-> IF Get(res, "status", None) # "error" THEN res ELSE EmptyDict,
          error |-> IF Get(res, "status", None) = "error"
                    THEN Get(res, "error", None) ELSE None]
    ELSE [task_id |-> task_id, status |-> "processing",
          result |-> EmptyDict, error |-> None]

\* ------------------------------------------------------------- debug server

\* the callback_url submit_job gives every job: the debug server's own webhook
WebhookUrl == "http://localhost/api/webhook"

\* POST /api/webhook: the posted result replaces what results_store holds for
\* its task_id
webhook(posted_result) ==
    SetItem(results_store, posted_result.task_id, posted_result)

\* POST /api/submit: the job goes to POST /process of the receiver with the
\* webhook as its callback_url; on a 202 the task is saved as pending, any other
\* answer raises in raise_for_status and nothing is saved
submit_job(max_jobs) ==
    /\ requests < max_jobs
    /\ requests' = requests + 1
    /\ \E image_url \in ImageUrls, user_id \in UserIds, timestamp \in Timestamps :
           IF validate_image_url(image_url) /\ validate_timestamp(timestamp)
           THEN /\ health_check(TRUE)
                /\ enqueue_job(image_url, user_id, timestamp, WebhookUrl)
                /\ response' = [Answer(image_url, timestamp, HTTP_202_ACCEPTED)
                                   EXCEPT !.task_id = <<uuid_count'>>]
                /\ results_store' =
                       SetItem(results_store, uuid_count',
                               [status |-> "pending", submitted_at |-> now])
           ELSE /\ response' = Answer(image_url, timestamp,
                                      HTTP_422_UNPROCESSABLE_ENTITY)
                /\ UNCHANGED <<queue, uuid_count, pending, results_store>>
    /\ UNCHANGED <<store, now, pc, job_data, result, popped, posts, sent, posted,
                   raised, poll_interval, pop, ocr_input, extracted>>

\* GET /api/result/<task_id>, the JSON it returns: what results_store holds for
\* the task, else the answer of GET /result/<task_id> of the receiver
debug_get_result_body(task_id) ==
    IF task_id \in DOMAIN results_store THEN results_store[task_id]
    ELSE receiver_get_result(task_id)

\* GET /api/result/<task_id>: an answer of the receiver that is not processing is
\* kept in results_store
debug_get_result(task_id) ==
    /\ results_store' =
           IF task_id \in DOMAIN results_store THEN results_store
           ELSE IF receiver_get_result(task_id).status # "processing"
                THEN SetItem(results_store, task_id, receiver_get_result(task_id))
                ELSE results_store
    /\ UNCHANGED <<queue, store, now, uuid_count, pc, job_data, result, pending,
                   popped, posts, requests, response, sent, posted, raised,
                   poll_interval, pop, ocr_input, extracted>>

\* -------------------------------------------------------------- SenderWorker

\* mutant: a POST that fails is sent a second time
send_callback_retrying(callback_url, payload, retry_count) ==
    LET post == SetToBag({[url |-> callback_url, task_id |-> payload.task_id,
                           retry_count |-> retry_count,
                           status |-> payload.status]})
    IN  \E ok \in BOOLEAN :
            /\ sent' = <<ok>>
            /\ results_store' = IF ok /\ callback_url = WebhookUrl
                                 THEN webhook(payload) ELSE results_store
            /\ posted' = <<payload.task_id \in DOMAIN store
                          /\ json_dumps(payload, ResultKeys)
                                 = store[payload.task_id].value>>
            /\ posts' = IF ok THEN posts (+) post ELSE posts (+) post (+) post

\* SenderWorker.send_callback: one POST of the result; it returns True when the
\* POST was answered 2xx and False when it raised, which is only logged
send_callback(callback_url, payload, retry_count) ==
    /\ posts' = posts (+) SetToBag({[url |-> callback_url,
                                  task_id |-> payload.task_id,
                                  retry_count |-> retry_count,
                                  status |-> payload.status]})
    /\ \E ok \in BOOLEAN :
           /\ sent' = <<ok>>
           /\ results_store' = IF ok /\ callback_url = WebhookUrl
                                THEN webhook(payload) ELSE results_store
    /\ posted' = <<payload.task_id \in DOMAIN store
                  /\ json_dumps(payload, ResultKeys)
                         = store[payload.task_id].value>>

\* int(x) of a float given in thousandths: truncation toward zero
int(thousandths) == thousandths \div 1000

\* mutant: `break` for `continue`, the loop ends
loop_break(w) == pc' = [pc EXCEPT ![w] = "stopped"]

\* run(): `if not job_data: continue`, back to the top of the loop
loop_continue(w) == pc' = [pc EXCEPT ![w] = "dequeue"]

\* run(): job_data = queue_manager.dequeue_job(timeout=int(poll_interval));
\* no job within the timeout: continue
run_dequeue(w) ==
    /\ pc[w] = "dequeue"
    /\ \/ /\ dequeue_job(w, int(poll_interval))
          /\ pc' = [pc EXCEPT ![w] = "process"]
          /\ UNCHANGED <<store, now, uuid_count, result, posts, requests,
                         response, sent, posted,
                   results_store, raised, poll_interval, ocr_input,
                         extracted>>
       \/ /\ dequeue_job_none(w, int(poll_interval))
          /\ loop_continue(w)
          /\ UNCHANGED <<store, now, uuid_count, result, posts, requests,
                         response, sent, posted,
                   results_store, raised, poll_interval, ocr_input,
                         extracted>>

\* run(): result = self.process_job(job_data), then
\* queue_manager.store_result(job_data['task_id'], result)
run_process(w) ==
    /\ pc[w] = "process"
    /\ \E i \in DOMAIN Worlds :
           store_result(w, job_data[w].task_id,
                        process_job(job_data[w], Worlds[i]))
    /\ pc' = [pc EXCEPT ![w] = "callback"]
    /\ UNCHANGED <<queue, now, uuid_count, job_data, pending, popped, posts,
                   requests, response, sent, posted,
                   results_store, raised,
                   poll_interval, pop, ocr_input, extracted>>

\* mutant: the comparison with max_retries is off by one
should_retry_once_more(job, res) ==
    res.status = "error" /\ Get(job, "retry_count", 0) <= max_retries

\* mutant: a failed job is always requeued
should_retry_always(job, res) == res.status = "error"

\* mutant: the status of the result is not looked at
should_retry_any_status(job, res) == Get(job, "retry_count", 0) < max_retries

\* run(): the retry check: result['status'] == 'error' and
\* job_data.get('retry_count', 0) < self.max_retries
should_retry(job, res) ==
    res.status = "error" /\ Get(job, "retry_count", 0) < max_retries

\* mutant: the callback is sent whether the job has a callback_url or not
run_callback_always_posts(w) ==
    /\ pc[w] = "callback"
    /\ send_callback(job_data[w].callback_url, result[w], job_data[w].retry_count)
    /\ IF should_retry(job_data[w], result[w])
       THEN requeue_job(w, job_data[w])
       ELSE UNCHANGED <<queue, pending>>
    /\ pc' = [pc EXCEPT ![w] = "dequeue"]
    /\ job_data' = [job_data EXCEPT ![w] = EmptyDict]
    /\ result' = [result EXCEPT ![w] = EmptyDict]
    /\ UNCHANGED <<store, now, uuid_count, popped, requests, response, raised,
                   poll_interval, pop, ocr_input, extracted>>

\* run(): if job_data.get('callback_url'): self.send_callback(...), then the
\* retry check, which ends the iteration
run_callback(w) ==
    /\ pc[w] = "callback"
    /\ IF Get(job_data[w], "callback_url", None) \notin {None, ""}
       THEN send_callback(job_data[w].callback_url, result[w],
                          job_data[w].retry_count)
       ELSE UNCHANGED <<posts, sent, posted, results_store>>
    /\ IF should_retry(job_data[w], result[w])
       THEN requeue_job(w, job_data[w])
       ELSE UNCHANGED <<queue, pending>>
    /\ pc' = [pc EXCEPT ![w] = "dequeue"]
    /\ job_data' = [job_data EXCEPT ![w] = EmptyDict]
    /\ result' = [result EXCEPT ![w] = EmptyDict]
    /\ UNCHANGED <<store, now, uuid_count, popped, requests, response, raised,
                   poll_interval, pop, ocr_input, extracted>>

\* the wall clock advances
Tick ==
    /\ now < MaxTicks * TickSeconds
    /\ now' = now + TickSeconds
    /\ UNCHANGED <<queue, store, uuid_count, pc, job_data, result, pending,
                   popped, posts, requests, response, sent, posted,
                   results_store, raised,
                   poll_interval, pop, ocr_input, extracted>>

\* mutant: the exception leaves run(), the worker process ends
except_branch_ends_loop(w) ==
    /\ raised[w] < MaxFaults
    /\ raised' = [raised EXCEPT ![w] = @ + 1]
    /\ pc' = [pc EXCEPT ![w] = "crashed"]
    /\ job_data' = [job_data EXCEPT ![w] = EmptyDict]
    /\ result' = [result EXCEPT ![w] = EmptyDict]

\* the except Exception branch of run(): the error is logged, the worker sleeps
\* poll_interval and the loop goes on with the next dequeue; the locals of the
\* iteration are not read again
except_branch(w) ==
    /\ raised[w] < MaxFaults
    /\ raised' = [raised EXCEPT ![w] = @ + 1]
    /\ pc' = [pc EXCEPT ![w] = "dequeue"]
    /\ job_data' = [job_data EXCEPT ![w] = EmptyDict]
    /\ result' = [result EXCEPT ![w] = EmptyDict]

\* run(): dequeue_job raises (the Queue Store is unreachable): nothing is popped
run_dequeue_raises(w) ==
    /\ pc[w] = "dequeue"
    /\ except_branch(w)
    /\ UNCHANGED <<queue, store, now, uuid_count, pending, popped, posts,
                   requests, response, sent, posted,
                   results_store,
                   poll_interval, pop, ocr_input, extracted>>

\* run(): process_job returns and the SETEX of store_result raises: nothing is
\* written, and the lines after it (callback, retry check) are skipped
run_store_raises(w) ==
    /\ pc[w] = "process"
    /\ except_branch(w)
    /\ UNCHANGED <<queue, store, now, uuid_count, pending, popped, posts,
                   requests, response, sent, posted,
                   results_store,
                   poll_interval, pop, ocr_input, extracted>>

\* run(): the callback is sent, the retry check passes and the RPUSH of
\* requeue_job raises: nothing is pushed
run_requeue_raises(w) ==
    /\ pc[w] = "callback"
    /\ should_retry(job_data[w], result[w])
    /\ IF Get(job_data[w], "callback_url", None) \notin {None, ""}
       THEN send_callback(job_data[w].callback_url, result[w],
                          job_data[w].retry_count)
       ELSE UNCHANGED <<posts, sent, posted, results_store>>
    /\ except_branch(w)
    /\ UNCHANGED <<queue, store, now, uuid_count, pending, popped,
                   requests, response,
                   poll_interval, pop, ocr_input, extracted>>

\* number of worker processes killed so far
Crashed == Cardinality({w \in Workers : pc[w] = "crashed"})

\* the process of worker w is killed (SIGKILL, power loss) anywhere in run():
\* its locals are gone, no handler runs
crash(w) ==
    /\ pc[w] # "crashed"
    /\ Crashed < MaxCrashes
    /\ pc' = [pc EXCEPT ![w] = "crashed"]
    /\ job_data' = [job_data EXCEPT ![w] = EmptyDict]
    /\ result' = [result EXCEPT ![w] = EmptyDict]
    /\ UNCHANGED <<queue, store, now, uuid_count, pending, popped, posts,
                   requests, response, sent, posted,
                   results_store, raised,
                   poll_interval, pop, ocr_input, extracted>>

\* ------------------------------------------------------------ specification

\* the state after construction, for a configured poll interval (in
\* milliseconds) and the fragments the extractor is to be called on
Boot(interval, fragments) ==
    /\ queue = <<>>
    /\ store = EmptyDict
    /\ now = 0
    /\ uuid_count = 0
    /\ pc = [w \in Workers |-> "dequeue"]
    /\ job_data = [w \in Workers |-> EmptyDict]
    /\ result = [w \in Workers |-> EmptyDict]
    /\ pending = <<>>
    /\ popped = EmptyBag
    /\ posts = EmptyBag
    /\ requests = 0
    /\ response = EmptyDict
    /\ sent = <<>>
    /\ raised = [w \in Workers |-> 0]
    /\ poll_interval = interval
    /\ posted = <<>>
    /\ results_store = EmptyDict
    /\ pop = <<>>
    /\ ocr_input = fragments
    /\ extracted = <<>>

\* the service under its default settings
Init == Boot(sender_poll_interval * 1000, <<>>)

Next ==
    \/ process_image(MaxJobs)
    \/ \E w \in Workers : run_dequeue(w)
    \/ \E w \in Workers : run_process(w)
    \/ \E w \in Workers : run_callback(w)
    \/ Tick

Spec == Init /\ [][Next]_vars

\* one iteration step of worker w
WorkerStep(w) == run_dequeue(w) \/ run_process(w) \/ run_callback(w)

\* the same system with at most MaxFairJobs admissions
NextFair ==
    \/ process_image(MaxFairJobs)
    \/ \E w \in Workers : run_dequeue(w)
    \/ \E w \in Workers : run_process(w)
    \/ \E w \in Workers : run_callback(w)
    \/ Tick

\* every worker is a running process: it is not starved for ever
FairSpec ==
    Init /\ [][NextFair]_vars /\ \A w \in Workers : WF_vars(WorkerStep(w))

\* the system with a Queue Store that may fail and workers that may be killed
NextFault ==
    \/ process_image(MaxFairJobs)
    \/ process_image_unhealthy(MaxFairJobs)
    \/ process_image_llen_raises(MaxFairJobs)
    \/ \E w \in Workers : run_dequeue(w)
    \/ \E w \in Workers : run_process(w)
    \/ \E w \in Workers : run_callback(w)
    \/ \E w \in Workers : run_dequeue_raises(w)
    \/ \E w \in Workers : run_store_raises(w)
    \/ \E w \in Workers : run_requeue_raises(w)
    \/ \E w \in Workers : crash(w)

\* every worker process that is alive keeps running; nothing obliges a Redis
\* command to raise or a process to be killed
FaultSpec ==
    Init /\ [][NextFault]_vars /\ \A w \in Workers : WF_vars(WorkerStep(w))

\* poll intervals a deployment may configure (SENDER_POLL_INTERVAL, a float of
\* seconds), in milliseconds
PollIntervals == {500, 1000, 1500, 2000}

\* the service under any of these poll intervals
InitPoll == \E interval \in PollIntervals : Boot(interval, <<>>)

PollSpec == InitPoll /\ [][NextFair]_vars

\* fragments in one call of extract_contract_number
MaxFragments == 2

Sozlesme == <<"S", o_diaeresis, "z", "l", "e", s_cedilla, "m", "e">>

\* texts PaddleOCR may read off a photographed contract
FragmentTexts == {
    Sozlesme \o <<"-", "5", "3", "5", "6", "3", "1", "4", "8", "4", "8">>,
    Sozlesme \o <<"-", "4", "3", "5", "6", "3", "1", "4", "8", "4", "8">>,
    Sozlesme \o <<"-", "5", arabic_indic_three, "5", "6", "3", "1", "4", "8",
                  "4", "8">>,
    <<"s", o_diaeresis, "z", "l", "e", "s", "m", "e", "U+2013", " ",
      "5", "0", "0", "1", "2", "3", "4", "5", "6", "7">>,
    Sozlesme,
    <<"5", "5", "5", "1", "2", "3", "4", "5", "6", "7">>,
    <<"(", "5", "3", "5", ")", " ", "6", "3", "1", "-", "4", "8", " ", "4", "8">>,
    <<"1", "2", "3", "4", "5", "6", "7", "8", "9", "0">>,
    <<"5", "3", "5", "6", "3", "1", "4", "8", "4">>,
    <<"2", "0", "2", "5">>,
    <<"h", "e", "l", "l", "o">>,
    <<>> }

\* the score PaddleOCR gives a fragment, in percent: by the length of its text
ScoreOf(text) == IF Len(text) < 10 THEN 60 ELSE 90

\* the lists of OCRResult an OCR run may hand to the extractor
ExtractInputs ==
    UNION {[1..n -> {[text |-> t, confidence |-> ScoreOf(t)] : t \in FragmentTexts}]
               : n \in 0..MaxFragments}

\* one call of extract_contract_number
extract ==
    /\ extracted = <<>>
    /\ extracted' = <<extract_contract_number(ocr_input)>>
    /\ UNCHANGED <<queue, store, now, uuid_count, pc, job_data, result, pending,
                   popped, posts, requests, response, sent, posted,
                   results_store, raised,
                   poll_interval, pop, ocr_input>>

InitExtract ==
    \E fragments \in ExtractInputs : Boot(sender_poll_interval * 1000, fragments)

NextExtract == extract

\* the extractor called once on any of these lists
ExtractSpec == InitExtract /\ [][NextExtract]_vars

\* the service with the debug server in front of it: jobs come in through
\* POST /api/submit or straight to the receiver, and results are polled through
\* GET /api/result
NextDebug ==
    \/ submit_job(MaxFairJobs)
    \/ process_image(MaxFairJobs)
    \/ \E w \in Workers : run_dequeue(w)
    \/ \E w \in Workers : run_process(w)
    \/ \E w \in Workers : run_callback(w)
    \/ \E task_id \in TaskIds \cup {UnknownTaskId} : debug_get_result(task_id)

\* every worker is a running process; nothing obliges a callback POST to succeed
DebugSpec ==
    Init /\ [][NextDebug]_vars /\ \A w \in Workers : WF_vars(WorkerStep(w))

\* ------------------------------------------------------------ observations

\* the job dicts in the pending queue, head first
QueueJobs == [i \in 1..Len(queue) |-> json_loads(queue[i])]

\* whether worker w is inside an iteration, holding a popped job
Holding(w) == pc[w] \in {"process", "callback"}

\* number of records of task t in the pending queue
InQueue(t) == Cardinality({i \in 1..Len(queue) : QueueJobs[i].task_id = t})

\* number of workers holding a record of task t
InFlight(t) == Cardinality({w \in Workers : Holding(w) /\ job_data[w].task_id = t})

\* number of pops of record <<t, retry_count>> so far
Pops(t, rc) == CopiesIn(<<t, rc>>, popped)

\* the record ids that exist: in the queue, or popped
RecordIds == {<<QueueJobs[i].task_id, QueueJobs[i].retry_count>> : i \in 1..Len(queue)}
             \cup BagToSet(popped)

\* number of copies of record id in the pending queue
QueueCopies(id) ==
    Cardinality({i \in 1..Len(queue) :
                    <<QueueJobs[i].task_id, QueueJobs[i].retry_count>> = id})

\* the Result Record last written for task t (expired or not)
Written(t) == json_loads(store[t].value)

\* the id <<task_id, retry_count>> of the record worker w holds
HeldId(w) == <<job_data[w].task_id, job_data[w].retry_count>>

\* ------------------------------------------------------------------ claims

\* C1: every record pushed is handed out by dequeue_job exactly once: a record
\* is in the pending queue or has been popped, never both and never twice, no two
\* workers hold the same record, and no admitted record has disappeared.
C1_AtomicPop ==
    /\ \A id \in RecordIds : QueueCopies(id) + CopiesIn(id, popped) = 1
    /\ \A t \in 1..uuid_count : <<t, 0>> \in RecordIds
    /\ \A w \in Workers : Holding(w) => CopiesIn(HeldId(w), popped) = 1
    /\ \A w1, w2 \in Workers :
           Holding(w1) /\ Holding(w2) /\ w1 # w2 => HeldId(w1) # HeldId(w2)

\* C1 witness: a queue of two jobs has been emptied by two workers that hold one
\* job each.
C1_Witness ==
    /\ uuid_count = 2 /\ queue = <<>>
    /\ Holding(1) /\ Holding(2)
    /\ HeldId(1)[2] = 0 /\ HeldId(2)[2] = 0

\* C2: for every task id, the records of it in the pending queue plus the workers
\* holding a record of it are at most one.
C2_SingleAttemptInFlight ==
    \A t \in TaskIds : InQueue(t) + InFlight(t) <= 1

\* C2 witness: a failed job is back in the queue after a requeue while another
\* worker holds the other job.
C2_Witness ==
    /\ \E i \in 1..Len(queue) : QueueJobs[i].retry_count >= 1
    /\ \E w \in Workers : Holding(w)
    /\ \A t \in TaskIds : InQueue(t) + InFlight(t) = 1

\* C3: every pop returns the record whose push is the oldest among the pushes not
\* yet popped, so records leave in the order of their pushes.
C3_FifoOrder ==
    [][\A w \in Workers :
          (pc[w] = "dequeue" /\ pc'[w] = "process")
              => /\ pending # <<>>
                 /\ <<job_data'[w].task_id, job_data'[w].retry_count>>
                        = Head(pending)]_vars

\* C3 witness: a requeued record of task 1 has been popped after the first record
\* of task 2, which was pushed before it.
C3_Witness ==
    /\ CopiesIn(<<1, 1>>, popped) = 1
    /\ CopiesIn(<<2, 0>>, popped) = 1
    /\ \E w \in Workers : Holding(w) /\ HeldId(w) = <<1, 1>>

\* C4: the step that ends a failed attempt whose retry_count is below max_retries
\* leaves exactly one record of the task in the pending queue, with the same
\* task_id and retry_count + 1.
C4_RequeueIncrements ==
    [][\A w \in Workers :
          (/\ pc[w] = "callback" /\ pc'[w] = "dequeue"
           /\ result[w].status = "error"
           /\ job_data[w].retry_count < max_retries)
              => \E t \in {job_data[w].task_id} :
                     /\ InQueue(t)' = 1
                     /\ \E i \in 1..Len(queue') :
                            /\ json_loads(queue'[i]).task_id = t
                            /\ json_loads(queue'[i]).retry_count
                                   = job_data[w].retry_count + 1]_vars

\* C4 witness: a record requeued for the second time (retry_count 2) is pending.
C4_Witness ==
    \E i \in 1..Len(queue) : QueueJobs[i].retry_count = 2

\* number of attempts started on task t: the pops of its records
Attempts(t) ==
    LET RECURSIVE Sum(_)
        Sum(rc) == IF rc < 0 THEN 0 ELSE Pops(t, rc) + Sum(rc - 1)
    IN  Sum(max_retries + 1)

\* task t is over: a Result Record has been written for it and no record of it
\* is pending or in flight
Terminal(t) == t \in DOMAIN store /\ InQueue(t) = 0 /\ InFlight(t) = 0

\* C5: no task is attempted more than max_retries + 1 times, and with every
\* worker running every admitted task reaches a terminal state: a Result Record
\* written, no record of it pending or in flight.
C5_BoundedAttemptsAndTermination ==
    /\ [](\A t \in TaskIds : Attempts(t) <= max_retries + 1)
    /\ \A t \in TaskIds : (t <= uuid_count) ~> Terminal(t)

\* C5 witness: a task has been attempted max_retries + 1 times and is over.
C5_Witness ==
    \E t \in TaskIds : Attempts(t) = max_retries + 1 /\ Terminal(t)

\* C6: the step that ends a failed attempt whose retry_count has reached
\* max_retries pushes nothing and leaves the task's written Result Record with
\* status error; and once the record with retry_count = max_retries has been
\* popped, no record of the task is in the pending queue again.
C6_TerminalFailure ==
    /\ [][\A w \in Workers :
            (/\ pc[w] = "callback" /\ pc'[w] = "dequeue"
             /\ result[w].status = "error"
             /\ job_data[w].retry_count >= max_retries)
                => \E t \in {job_data[w].task_id} :
                       /\ queue' = queue
                       /\ t \in DOMAIN store'
                       /\ Written(t)'.status = "error"
                       /\ Terminal(t)']_vars
    /\ [](\A t \in TaskIds : Pops(t, max_retries) >= 1 => InQueue(t) = 0)
    /\ [](\A i \in 1..Len(queue) : QueueJobs[i].retry_count <= max_retries)

\* C6 witness: a task has failed max_retries + 1 times and is over, its written
\* Result Record has status error.
C6_Witness ==
    \E t \in TaskIds :
        /\ Attempts(t) = max_retries + 1 /\ Terminal(t)
        /\ Written(t).status = "error"

\* the task ids a caller may ask about: the admitted ones, those not admitted
\* yet, and one that never is
QueryIds == TaskIds \cup {UnknownTaskId}

\* the answer to a query that finds no Result Record
Processing(t) ==
    [task_id |-> t, status |-> "processing", result |-> EmptyDict, error |-> None]

\* the first attempt on task t has not finished: its first record is pending, or
\* a worker holds it and has not stored a result yet
FirstAttemptUnfinished(t) ==
    \/ QueueCopies(<<t, 0>>) = 1
    \/ \E w \in Workers : pc[w] = "process" /\ HeldId(w) = <<t, 0>>

\* C7 as stated: the query of an admitted task answers processing while its first
\* attempt has not finished, and completed or error once an attempt has finished.
C7_Original ==
    \A t \in TaskIds :
        t <= uuid_count
            => IF FirstAttemptUnfinished(t)
               THEN receiver_get_result(t).status = "processing"
               ELSE receiver_get_result(t).status \in {"completed", "error"}

\* C7 amended: the query of an admitted task answers processing while its first
\* attempt has not finished; once an attempt has finished a Result Record has been
\* written, and while the latest one is younger than result_ttl the query answers
\* its status, completed or error; with every worker running a non-processing
\* answer is eventually there to observe.
C7_QueryFollowsAttempt ==
    /\ [](\A t \in TaskIds :
            t <= uuid_count
                => IF FirstAttemptUnfinished(t)
                   THEN receiver_get_result(t) = Processing(t)
                   ELSE /\ t \in DOMAIN store
                        /\ now - Written(t).completed_at < result_ttl
                               => /\ receiver_get_result(t).status
                                         \in {"completed", "error"}
                                  /\ receiver_get_result(t).status
                                         = Written(t).status)
    /\ \A t \in TaskIds :
           FirstAttemptUnfinished(t) ~> (receiver_get_result(t).status # "processing")

\* C7 witness: a worker has just finished an attempt on a task and its query
\* answers completed.
C7_Witness ==
    \E w \in Workers :
        /\ pc[w] = "callback"
        /\ receiver_get_result(job_data[w].task_id).status = "completed"

C10_ExpiredIsAbsent ==
    \A t \in DOMAIN store :
        now - Written(t).completed_at >= result_ttl
            => receiver_get_result(t) = Processing(t)

\* C10 witness: a written record is result_ttl seconds old.
C10_Witness ==
    \E t \in DOMAIN store :
        /\ now - Written(t).completed_at >= result_ttl
        /\ Terminal(t)

\* the claim's condition on image_url, on its characters
StartsWithHttp(v) ==
    \/ Len(v) >= 7 /\ SubSeq(v, 1, 7) = <<"h", "t", "t", "p", ":", "/", "/">>
    \/ Len(v) >= 8 /\ SubSeq(v, 1, 8) = <<"h", "t", "t", "p", "s", ":", "/", "/">>

\* a request the claim calls invalid
InvalidRequest(image_url, timestamp) ==
    ~StartsWithHttp(image_url) \/ timestamp \notin IsoTimestamps

\* a step in which POST /process handles a request
Handled == requests' = requests + 1

\* C11: a request whose image_url does not start with http:// or https://, or
\* whose timestamp is not ISO-8601, is answered with a 4xx status and pushes
\* nothing; no record in the pending queue or in a worker's hands carries such
\* an image_url or timestamp.
C11_InvalidRejected ==
    /\ [][Handled /\ InvalidRequest(response'.image_url, response'.timestamp)
            => /\ response'.status_code \in 400..499
               /\ response'.task_id = <<>>
               /\ queue' = queue /\ uuid_count' = uuid_count]_vars
    /\ [](\A i \in 1..Len(queue) :
            ~InvalidRequest(QueueJobs[i].image_url, QueueJobs[i].timestamp))
    /\ [](\A w \in Workers :
            Holding(w) => ~InvalidRequest(job_data[w].image_url,
                                          job_data[w].timestamp))

\* C11 witness: a request with an ftp:// image_url has been answered 422 after
\* a valid one was queued, and the queue holds that one job only.
C11_Witness ==
    /\ requests = 2
    /\ response.status_code = HTTP_422_UNPROCESSABLE_ENTITY
    /\ response.image_url = FtpImageUrl
    /\ Len(queue) = 1 /\ uuid_count = 1

\* C12: a request answered 202 has appended exactly one record to the tail of
\* the pending queue, with the task_id of the answer, which no record and no
\* result carried before, and retry_count 0; no other step adds a record with
\* retry_count 0, and no task has two of them.
C12_SinglePushFreshId ==
    /\ [][Handled /\ response'.status_code = HTTP_202_ACCEPTED
            => /\ Len(queue') = Len(queue) + 1
               /\ SubSeq(queue', 1, Len(queue)) = queue
               /\ LET job == json_loads(queue'[Len(queue')]) IN
                    /\ <<job.task_id>> = response'.task_id
                    /\ job.retry_count = 0
                    /\ job.task_id \notin {id[1] : id \in RecordIds}
                    /\ job.task_id \notin DOMAIN store]_vars
    /\ [][~Handled => \A t \in TaskIds :
                          QueueCopies(<<t, 0>>)' <= QueueCopies(<<t, 0>>)]_vars
    /\ [](\A t \in TaskIds : QueueCopies(<<t, 0>>) + Pops(t, 0) <= 1)

\* C12 witness: the second request has been answered 202 with task id 2 and both
\* records are pending, the new one at the tail.
C12_Witness ==
    /\ requests = 2
    /\ response.status_code = HTTP_202_ACCEPTED /\ response.task_id = <<2>>
    /\ Len(queue) = 2
    /\ QueueJobs[1].task_id = 1 /\ QueueJobs[2].task_id = 2

\* C13 as stated: a request handled while health_check returns False is answered
\* 503 and pushes nothing.
C13_UnhealthyIs503 ==
    /\ [](requests > 0 /\ response.health_check = <<FALSE>>
            => response.status_code = HTTP_503_SERVICE_UNAVAILABLE)
    /\ [][Handled /\ response'.health_check = <<FALSE>>
            => queue' = queue /\ uuid_count' = uuid_count]_vars

\* C14: a record with retry_count >= 1 is in the pending queue only if a Result
\* Record of its task has been written, the error result of the attempt before;
\* and when a worker reaches the retry check, the result of its attempt,
\* succeeded or failed, is what the key of the task holds.
C14_StoredBeforeRequeue ==
    /\ [](\A i \in 1..Len(queue) :
            QueueJobs[i].retry_count >= 1
                => /\ QueueJobs[i].task_id \in DOMAIN store
                   /\ Written(QueueJobs[i].task_id).status = "error")
    /\ [][\A w \in Workers :
            pc[w] = "callback" /\ pc'[w] = "dequeue"
                => /\ job_data[w].task_id \in DOMAIN store
                   /\ "completed_at" \in DOMAIN result[w]
                   /\ store[job_data[w].task_id].value
                          = json_dumps(result[w], ResultKeys)]_vars

\* C14 witness: a record with retry_count 1 is pending and the error result of
\* the first attempt is written.
C14_Witness ==
    \E i \in 1..Len(queue) :
        /\ QueueJobs[i].retry_count = 1
        /\ QueueJobs[i].task_id \in DOMAIN store
        /\ Written(QueueJobs[i].task_id).status = "error"
        /\ Written(QueueJobs[i].task_id).error = "Failed to download image"

\* C15 as stated: while no worker process has been killed, every record popped is
\* in the hands of a worker inside its iteration, or a Result Record of its task
\* is written, or a record of its task is in the pending queue.
C15_NoJobDropped ==
    (\A w \in Workers : pc[w] # "crashed")
        => \A id \in BagToSet(popped) :
               \/ \E w \in Workers : Holding(w) /\ HeldId(w) = id
               \/ id[1] \in DOMAIN store
               \/ InQueue(id[1]) >= 1

\* C16 as stated: in a run where no Redis command raises, every task whose
\* record has been popped gets a Result Record written, also when the worker
\* that popped it is killed.
C16_CrashedJobProcessed ==
    \A t \in TaskIds :
        (Pops(t, 0) >= 1)
            ~> (t \in DOMAIN store \/ \E w \in Workers : raised[w] > 0)

\* worker w is the only worker process alive
Alone(w) == pc[w] # "crashed" /\ \A v \in Workers \ {w} : pc[v] = "crashed"

\* C17: a step in which the loop of a worker catches an exception leaves the
\* worker at the dequeue, alive; and a worker that has caught an exception and
\* stands at the dequeue with a record pending gets a record into its hands when
\* it is the only worker alive, and otherwise the record is popped by some
\* worker, unless this worker is killed first.
C17_LoopSurvivesException ==
    /\ [][\A w \in Workers :
            raised'[w] # raised[w] => pc'[w] = "dequeue"]_vars
    /\ \A w \in Workers :
           (raised[w] > 0 /\ Alone(w) /\ queue # <<>>)
               ~> (pc[w] \in {"process", "crashed"})
    /\ \A w \in Workers :
           (raised[w] > 0 /\ pc[w] = "dequeue" /\ queue # <<>>)
               ~> (pc[w] \in {"process", "crashed"} \/ queue = <<>>)

\* C17 witness: the only worker alive has caught an exception and holds the
\* first record of a job.
C17_Witness ==
    \E w \in Workers :
        /\ raised[w] > 0 /\ Alone(w)
        /\ pc[w] = "process" /\ HeldId(w) = <<1, 0>>

\* C18: the step that sends the callback of an attempt leaves the Result Record
\* as it was stored and requeues by the result's status and the retry_count
\* alone, whatever send_callback returned; an attempt never has two POSTs.
C18_CallbackOutcomeIgnored ==
    /\ [][\A w \in Workers :
            pc[w] = "callback" /\ pc'[w] = "dequeue"
                => /\ store' = store
                   /\ queue' =
                        IF /\ result[w].status = "error"
                           /\ job_data[w].retry_count < max_retries
                        THEN Append(queue,
                                    json_dumps([job_data[w] EXCEPT
                                                   !.retry_count = @ + 1],
                                               JobKeys))
                        ELSE queue
                   /\ BagCardinality(posts') <= BagCardinality(posts) + 1]_vars
    /\ [](\A p \in BagToSet(posts) : CopiesIn(p, posts) = 1)

\* C18 witness: the only callback sent so far failed, it carried an error
\* result, and the job is pending again with retry_count 1.
C18_Witness ==
    /\ sent = <<FALSE>>
    /\ BagCardinality(posts) = 1
    /\ \E p \in BagToSet(posts), i \in 1..Len(queue) :
          /\ p.status = "error" /\ p.retry_count = 0
          /\ QueueJobs[i].task_id = p.task_id
          /\ QueueJobs[i].retry_count = 1

\* C19 as stated: every callback POST carries a completed result, or an error
\* result of an attempt after which the job is not requeued (retry_count has
\* reached max_retries).
C19_CallbackOnlyTerminal ==
    \A p \in BagToSet(posts) :
        \/ p.status = "completed"
        \/ p.status = "error" /\ p.retry_count >= max_retries

\* C20: the step that ends an attempt adds exactly one POST, of this attempt's
\* result to the job's callback_url, when the callback_url is not empty, and the
\* Result Record of the attempt is then already written; it adds none when the
\* job has no callback_url; no other step adds a POST.
C20_OnePostAfterStore ==
    /\ [][\A w \in Workers :
            pc[w] = "callback" /\ pc'[w] = "dequeue"
                => IF job_data[w].callback_url \notin {None, ""}
                   THEN /\ posts' = posts (+) SetToBag({
                                [url |-> job_data[w].callback_url,
                                 task_id |-> job_data[w].task_id,
                                 retry_count |-> job_data[w].retry_count,
                                 status |-> result[w].status]})
                        /\ job_data[w].task_id \in DOMAIN store
                        /\ store[job_data[w].task_id].value
                               = json_dumps(result[w], ResultKeys)
                   ELSE posts' = posts]_vars
    /\ [][(\A w \in Workers : ~(pc[w] = "callback" /\ pc'[w] = "dequeue"))
            => posts' = posts]_vars
    /\ [](\A p \in BagToSet(posts) :
            /\ p.url \notin {None, ""}
            /\ CopiesIn(<<p.task_id, p.retry_count>>, popped) = 1
            /\ p.task_id \in DOMAIN store)

\* C20 witness: of two jobs that have each had one attempt, the one with a
\* callback_url has one POST and the one without has none.
C20_Witness ==
    /\ BagCardinality(posts) = 1
    /\ Pops(1, 0) = 1 /\ Pops(2, 0) = 1
    /\ \A w \in Workers : ~Holding(w)
    /\ \A p \in BagToSet(posts) : p.task_id = 1 /\ p.retry_count = 0

\* C21: the JSON body of every callback POST is the Result Record the key of its
\* task held when it was sent, the completed_at added by store_result included:
\* the dict a worker is about to post is the one store_result wrote.
C21_PayloadIsStoredRecord ==
    /\ posted # <<>> => posted = <<TRUE>>
    /\ \A w \in Workers :
           pc[w] = "callback"
               => /\ job_data[w].task_id \in DOMAIN store
                  /\ result[w] = Written(job_data[w].task_id)
                  /\ result[w].task_id = job_data[w].task_id
                  /\ result[w].completed_at <= now

\* C21 witness: the callback of a failed attempt and then that of the retry that
\* succeeded have been posted, and the key holds the completed record.
C21_Witness ==
    /\ posted = <<TRUE>>
    /\ \E p, q \in BagToSet(posts) :
           /\ p.task_id = q.task_id
           /\ p.status = "error" /\ q.status = "completed"
           /\ Written(p.task_id).status = "completed"
           /\ "completed_at" \in DOMAIN Written(p.task_id)

\* the decimal digits of a text, in order
DigitsOf(text) == SelectSeq(text, LAMBDA c : c \in DecimalDigits)

\* whether the digits of a text hold a 5 with nine more digits after it
HasPhoneDigits(text) ==
    \E i \in 1..(Len(DigitsOf(text)) - 9) : DigitsOf(text)[i] = "5"

\* the worlds in which download and recognition succeed and no number is found
NothingFound ==
    {i \in DOMAIN Worlds :
        /\ Worlds[i].image
        /\ Worlds[i].ocr_result.success
        /\ ~HasPhoneDigits(Worlds[i].ocr_result.text)}

\* C22: an attempt whose download and recognition succeed and whose text holds no
\* number succeeds: its result has status completed with a null phone_number,
\* that is what is stored, and the step that ends the attempt pushes nothing.
C22_NothingFoundIsCompleted ==
    /\ [](\A w \in Workers :
            pc[w] = "process"
                => \A i \in NothingFound :
                       /\ process_job(job_data[w], Worlds[i]).status = "completed"
                       /\ process_job(job_data[w], Worlds[i]).phone_number
                              = NoNumber)
    /\ [](\A w \in Workers :
            (pc[w] = "callback" /\ result[w].status = "completed")
                => /\ Written(job_data[w].task_id).status = "completed"
                   /\ Written(job_data[w].task_id).phone_number
                          = result[w].phone_number)
    /\ [][\A w \in Workers :
            (/\ pc[w] = "callback" /\ pc'[w] = "dequeue"
             /\ result[w].status = "completed")
                => queue' = queue]_vars

\* C22 witness: an attempt that found no number is over, its record is completed
\* with a null phone_number, and no record of the task is pending or held.
C22_Witness ==
    \E t \in DOMAIN store :
        /\ Written(t).status = "completed"
        /\ Written(t).phone_number = NoNumber
        /\ Written(t).ocr_text = <<"h", "e", "l", "l", "o">>
        /\ InQueue(t) = 0 /\ InFlight(t) = 0

\* the reasons the failing steps report: the exception a download raised, the
\* exception OCRService.process_image caught
UnderlyingReasons ==
    ({Worlds[i].download_raises : i \in DOMAIN Worlds}
         \cup {Worlds[i].ocr_raises : i \in DOMAIN Worlds}) \ {None}

\* C23 as stated: the error field of every failed Result Record is the reason the
\* failing step reported, word for word.
C23_ErrorIsUnderlyingReason ==
    \A t \in DOMAIN store :
        Written(t).status = "error" => Written(t).error \in UnderlyingReasons

\* whether a retry of task t is waiting or being processed: a record of t with
\* retry_count >= 1 is pending, or a worker holds one and has stored nothing yet
RetryUnfinished(t) ==
    \/ \E i \in 1..Len(queue) :
           QueueJobs[i].task_id = t /\ QueueJobs[i].retry_count >= 1
    \/ \E w \in Workers :
           pc[w] = "process" /\ job_data[w].task_id = t
               /\ job_data[w].retry_count >= 1

\* C24: between a failed attempt and its retry a query of the task answers error
\* (while the key lives); once the retry has stored its result the query answers
\* the status of the retry, and it answers completed for as long as a completed
\* record lives.
C24_RetrySupersedesError ==
    /\ \A t \in TaskIds :
           (RetryUnfinished(t) /\ redis_exists(store, t))
               => /\ receiver_get_result(t).status = "error"
                  /\ receiver_get_result(t).error = Written(t).error
    /\ \A w \in Workers :
           (/\ pc[w] = "callback"
            /\ job_data[w].retry_count >= 1
            /\ redis_exists(store, job_data[w].task_id))
               => receiver_get_result(job_data[w].task_id).status
                      = result[w].status
    /\ \A t \in TaskIds :
           (redis_exists(store, t) /\ Written(t).status = "completed")
               => receiver_get_result(t).status = "completed"

\* C24 witness: the first attempt on a task failed, its retry succeeded, and the
\* query of the task answers completed.
C24_Witness ==
    \E t \in TaskIds :
        /\ Pops(t, 0) = 1 /\ Pops(t, 1) = 1
        /\ InFlight(t) = 0
        /\ receiver_get_result(t).status = "completed"

\* C25: the step that requeues a failed job puts its record behind every record
\* that is pending; a pop takes the head and no step reorders the queue, so all
\* of them leave before it.
C25_RequeueAtTail ==
    /\ [][\A w \in Workers :
            (pc[w] = "callback" /\ pc'[w] = "dequeue" /\ queue' # queue)
                => /\ Len(queue') = Len(queue) + 1
                   /\ SubSeq(queue', 1, Len(queue)) = queue
                   /\ json_loads(queue'[Len(queue')]).task_id
                          = job_data[w].task_id
                   /\ json_loads(queue'[Len(queue')]).retry_count >= 1]_vars
    /\ [][queue' # queue
            => \/ queue # <<>> /\ queue' = Tail(queue)
               \/ /\ Len(queue') = Len(queue) + 1
                  /\ SubSeq(queue', 1, Len(queue)) = queue]_vars

\* C25 witness: a retry is pending behind the first record of a job that was
\* admitted before the requeue.
C25_Witness ==
    /\ Len(queue) = 2
    /\ QueueJobs[1].retry_count = 0
    /\ QueueJobs[2].retry_count = 1
    /\ QueueJobs[1].task_id # QueueJobs[2].task_id

\* the texts of the fragments handed to the extractor, joined as it joins them
InputText == join([i \in DOMAIN ocr_input |-> ocr_input[i].text])

\* the number and the score extract_contract_number returned
Number == extracted[1][1]
Score == extracted[1][2]

\* C26: extract_contract_number returns either (None, 0.0) or a number of exactly
\* ten decimal digits that begins with 5; a text whose digits hold no 5 followed by
\* nine more digits (no digit, fewer than ten, none starting with 5, no text at
\* all) yields no number.
C26_TenDigitsFromFive ==
    extracted # <<>> =>
        /\ \/ Number = NoNumber /\ Score = 0
           \/ /\ Len(Number) = 10
              /\ Number[1] = "5"
              /\ \A k \in 1..Len(Number) : Number[k] \in DecimalDigits
        /\ ~HasPhoneDigits(InputText) => Number = NoNumber

\* ten digits that do not begin with 5 were read, and no number was returned
C26_Witness ==
    /\ extracted = <<<<NoNumber, 0>>>>
    /\ Len(ocr_input) = 2
    /\ Len(DigitsOf(InputText)) >= 10

\* the numbers of ten digits beginning with 5 that directly follow a contract
\* marker in a text
MarkerNumbers(text) ==
    {SubSeq(text, contract_group_at(text, i), contract_group_at(text, i) + 9) :
        i \in {m \in 1..Len(text) :
                  /\ contract_group_at(text, m) > 0
                  /\ text[contract_group_at(text, m)] = "5"}}

\* whether a text holds the contract marker
HasMarker(text) ==
    \E i \in 1..(Len(text) - 7) :
        /\ text[i] \in {"S", "s"}
        /\ SubSeq(text, i + 1, i + 4) = <<o_diaeresis, "z", "l", "e">>
        /\ text[i + 5] \in {"s", s_cedilla}
        /\ SubSeq(text, i + 6, i + 7) = <<"m", "e">>

\* C27: when the text holds the contract marker followed by a ten-digit number
\* beginning with 5, that number is what is returned; with no marker, a number
\* written with separators is returned with the separators removed.
C27_MarkerNumberReturned ==
    extracted # <<>> =>
        /\ MarkerNumbers(InputText) # {} => Number \in MarkerNumbers(InputText)
        /\ ( /\ ~HasMarker(InputText)
             /\ Len(DigitsOf(InputText)) = 10
             /\ DigitsOf(InputText)[1] = "5" ) => Number = DigitsOf(InputText)


\* C28: every pending record has an integer retry_count from 0 to max_retries;
\* a record enters the queue with retry_count 0 at its admission or, at a
\* requeue, with the retry_count of the attempt that just failed plus one, and no
\* record that stays in the queue changes.
C28_RetryCountRange ==
    /\ [](\A i \in 1..Len(queue) :
            /\ QueueJobs[i].retry_count \in Nat
            /\ QueueJobs[i].retry_count <= max_retries)
    /\ [][\A j \in 1..Len(queue') :
            \/ \E i \in 1..Len(queue) : queue[i] = queue'[j]
            \/ /\ json_loads(queue'[j]).retry_count = 0
               /\ json_loads(queue'[j]).task_id = uuid_count'
               /\ uuid_count' = uuid_count + 1
            \/ \E w \in Workers :
                  /\ pc[w] = "callback"
                  /\ json_loads(queue'[j]).task_id = job_data[w].task_id
                  /\ json_loads(queue'[j]).retry_count
                         = job_data[w].retry_count + 1]_vars
    /\ [][\A w \in Workers :
            (pc[w] = "dequeue" /\ pc'[w] = "process")
                => job_data'[w].retry_count
                       = json_loads(Head(queue)).retry_count]_vars

\* C28 witness: a record with retry_count max_retries is pending.
C28_Witness ==
    \E i \in 1..Len(queue) : QueueJobs[i].retry_count = max_retries

\* C29: whatever poll interval above zero is configured, dequeue_job sends a
\* blocking pop whose timeout is that interval, so a worker that finds the queue
\* empty waits inside the pop and never polls with pops that do not block.
C29_BlockingPopForInterval ==
    pop # <<>> =>
        /\ pop.command = "BLPOP"
        /\ pop.timeout * 1000 = poll_interval

\* C30: a dequeue that finds the queue empty returns no job and changes nothing:
\* the queue, the stored results and the worker's locals are as before, no
\* callback is sent, and the worker is back at its dequeue.
C30_EmptyDequeueChangesNothing ==
    [][(pop' # pop /\ pop'.reply = "nil") =>
          /\ UNCHANGED <<queue, store, posts, sent, posted, job_data, result, pending,
                         popped, uuid_count, now>>
          /\ \A w \in Workers : pc'[w] = pc[w] /\ (pc[w] = "dequeue" => job_data'[w] = EmptyDict)
          /\ \E w \in Workers : pc'[w] = "dequeue"]_vars

\* a worker found the queue empty after a job had gone through and been reported
C30_Witness ==
    /\ pop # <<>>
    /\ pop.reply = "nil"
    /\ store # EmptyDict
    /\ posts # EmptyBag

\* the keys of a job record that requeue_job is to leave alone
KeptJobKeys == {"task_id", "image_url", "user_id", "timestamp", "callback_url",
                "enqueued_at"}

\* C31: the step that requeues a job pushes a record with the task_id, image_url,
\* user_id, timestamp, callback_url and enqueued_at of the record that was
\* dequeued and nothing but retry_count changed, and leaves every Result Record
\* and every record that was pending as it was.
C31_RequeueChangesOnlyRetryCount ==
    [][\A w \in Workers :
          (pc[w] = "callback" /\ pc'[w] = "dequeue" /\ queue' # queue)
              => /\ DOMAIN json_loads(queue'[Len(queue')]) = DOMAIN job_data[w]
                 /\ \A k \in KeptJobKeys :
                        json_loads(queue'[Len(queue')])[k] = job_data[w][k]
                 /\ store' = store
                 /\ \A i \in 1..Len(queue) : queue'[i] = queue[i]]_vars

\* C31 witness: a job with a callback_url admitted after a tick is pending for its
\* third attempt behind another record, and both tasks have a Result Record.
C31_Witness ==
    /\ Len(queue) = 2
    /\ QueueJobs[2].retry_count = 2
    /\ QueueJobs[2].callback_url # None
    /\ QueueJobs[2].enqueued_at # 0
    /\ Cardinality(DOMAIN store) = 2

\* C32: a Result Record with status completed is never written again: no step
\* changes the key of a task whose record is completed, no record of such a task
\* is pending or being processed, and a query that answered completed answers
\* completed or, once the key has expired, processing.
C32_CompletedIsFinal ==
    /\ [][\A t \in TaskIds :
            (t \in DOMAIN store /\ Written(t).status = "completed")
                => store'[t] = store[t]]_vars
    /\ [](\A t \in TaskIds :
            (t \in DOMAIN store /\ Written(t).status = "completed")
                => /\ InQueue(t) = 0
                   /\ \A w \in Workers :
                          pc[w] = "process" => job_data[w].task_id # t
                   /\ receiver_get_result(t).status
                          = IF now < store[t].expire_at THEN "completed"
                            ELSE "processing")

\* C32 witness: a retry has succeeded, one worker is done with it and the other has
\* since run an attempt on another task.
C32_Witness ==
    \E t \in DOMAIN store, u \in DOMAIN store :
        /\ t # u
        /\ Written(t).status = "completed" /\ Pops(t, 1) = 1 /\ Terminal(t)
        /\ Written(u).completed_at > Written(t).completed_at

\* the worlds in which the image downloads and recognition, raising nothing,
\* yields no fragment at or above min_confidence
NoFragments ==
    {i \in DOMAIN Worlds :
        /\ Worlds[i].image
        /\ Worlds[i].ocr_raises = None
        /\ Worlds[i].ocr_result.results = <<>>}

\* C34: an attempt whose image downloads and whose recognition yields no fragment
\* fails: its result has status error and the job is requeued while retry_count
\* is below max_retries; no completed Result Record has an empty text.
C34_NoFragmentsIsFailure ==
    /\ [](\A w \in Workers :
            pc[w] = "process"
                => \A i \in NoFragments :
                       /\ process_job(job_data[w], Worlds[i]).status = "error"
                       /\ should_retry(job_data[w],
                                       process_job(job_data[w], Worlds[i]))
                              <=> job_data[w].retry_count < max_retries)
    /\ [](\A t \in TaskIds :
            (t \in DOMAIN store /\ Written(t).status = "completed")
                => Written(t).ocr_text # <<>>)
    /\ [][\A w \in Workers :
            (/\ pc[w] = "callback" /\ pc'[w] = "dequeue"
             /\ result[w].status = "error"
             /\ result[w].error = "OCR processing failed"
             /\ job_data[w].retry_count < max_retries)
                => Len(queue') = Len(queue) + 1]_vars

\* C34 witness: an attempt failed in recognition and its job is pending again.
C34_Witness ==
    /\ NoFragments # {}
    /\ \E i \in 1..Len(queue) :
           /\ QueueJobs[i].retry_count = 1
           /\ QueueJobs[i].task_id \in DOMAIN store
           /\ Written(QueueJobs[i].task_id).error = "OCR processing failed"

\* C33 as stated: a POST /process that is not answered 202 leaves the pending
\* queue as it was, and a record enters the queue with retry_count 0 only in a
\* request that is answered 202 with the task_id of that record.
C33_FailedAdmissionPushesNothing ==
    [][Handled =>
          /\ response'.status_code # HTTP_202_ACCEPTED => queue' = queue
          /\ queue' # queue
                 => /\ response'.status_code = HTTP_202_ACCEPTED
                    /\ response'.task_id
                           = <<json_loads(queue'[Len(queue')]).task_id>>]_vars


\* the job of task t was submitted through the debug server and no webhook has
\* answered it yet
SubmittedThroughDebug(t) ==
    t \in DOMAIN results_store /\ results_store[t].status = "pending"

\* C35: a job submitted through the debug server is eventually answered by
\* GET /api/result/<task_id> of the debug server with the last Result Record
\* the Queue Store holds for it, whether or not the callback POSTs succeeded.
C35_DebugPollReturnsLatest ==
    \A t \in TaskIds :
        SubmittedThroughDebug(t)
            ~> (Terminal(t) /\ debug_get_result_body(t) = Written(t))

====
